---- MODULE Spec2Model ----
(***************************************************************************)
(* Model of the retrieve-and-rerank notebook                               *)
(* (supporting-blog-content/evaluating-search-relevance-part-1).           *)
(*                                                                         *)
(* Python dicts are modelled as sequences of <<key, value>> pairs with     *)
(* distinct keys, in insertion order.  Query ids and document ids are      *)
(* small integers; a query's text is identified with its id.               *)
(***************************************************************************)
EXTENDS Integers, Sequences, FiniteSets, TLC

\* ------------------------------------------------------------------ bounds
MaxQueries == 3
MaxDocs == 3
MaxSize == 2
MaxBatch == 2

QueryIds == 1..MaxQueries
DocIds == 1..MaxDocs
\* a document left in the index by an earlier run, not part of the corpus
StaleDoc == 0

VARIABLES
    pc,               \* position in the notebook / in retrieve()
    indexExists,      \* the named index exists in the deployment
    indexAnalyzer,    \* analyzer of the index's mappings
    indexDocs,        \* ids of the documents searchable in the index
    indexPending,     \* ids written but not yet visible to search
    lastStatus,       \* HTTP status of the last indices.create call
    corpus,           \* the corpus dataset: a sequence of document ids
    bulkPos,          \* rows of the corpus consumed by bulk()
    judged,           \* query ids that have rows in the raw qrels split
    queries,          \* the filtered queries dataset: a sequence of ids
    qrels,            \* dict query id -> dict doc id -> relevance
    size,             \* retrieve(size=...)
    batch_size,       \* retrieve(batch_size=...)
    qi,               \* rows of `queries` consumed by the for loop
    qids,             \* retrieve(): qids
    requests,         \* retrieve(): requests
    es_responses,     \* retrieve(): es_responses
    inflight,         \* msearch requests sent and not yet answered
    batchLog,         \* history: one record per batch request sent
    bm25_responses,   \* first-stage result
    ri,               \* entries of bm25_responses consumed by the reranker
    results_after_reranking,
    judge_rate_per_query, \* the list both judge-rate cells reset and fill
    eval_per_query,   \* dict query id -> ndcg_cut_10 of bm25_responses
    ndcg_bm25,        \* the mean printed by the BM25 evaluation cell
    post_reranking_eval_scores_per_query,
    ndcg_reranked,    \* the mean printed after reranking
    raised            \* the exception that stopped the notebook, or "none"

vars == <<pc, indexExists, indexAnalyzer, indexDocs, indexPending, lastStatus,
          corpus, bulkPos, judged, queries, qrels, size, batch_size, qi, qids,
          requests, es_responses, inflight, batchLog, bm25_responses, ri,
          results_after_reranking, judge_rate_per_query,
          eval_per_query, ndcg_bm25, post_reranking_eval_scores_per_query,
          ndcg_reranked, raised>>

indexVars == <<indexExists, indexAnalyzer, indexDocs, indexPending, lastStatus,
               corpus, bulkPos>>
dataVars == <<judged, queries, qrels>>
retrieveVars == <<size, batch_size, qi, qids, requests, es_responses, inflight,
                  batchLog>>
rerankVars == <<ri, results_after_reranking>>
judgeVars == <<judge_rate_per_query>>
evalVars == <<eval_per_query, ndcg_bm25, post_reranking_eval_scores_per_query,
              ndcg_reranked>>

\* ------------------------------------------------------------ dict helpers
DictKeys(d) == {d[i][1] : i \in DOMAIN d}

DictHas(d, k) == \E i \in DOMAIN d : d[i][1] = k

DictGet(d, k) == d[CHOOSE i \in DOMAIN d : d[i][1] = k][2]

\* d[k] = v: an existing key keeps its position, a new key goes last
DictSet(d, k, v) ==
    IF DictHas(d, k)
    THEN [i \in DOMAIN d |-> IF d[i][1] = k THEN <<k, v>> ELSE d[i]]
    ELSE Append(d, <<k, v>>)

\* d = e instead of d.update(e)
DictUpdate_Replace(d, e) == e

RECURSIVE DictUpdate(_, _)
DictUpdate(d, e) ==
    IF e = <<>> THEN d
    ELSE DictUpdate(DictSet(d, e[1][1], e[1][2]), Tail(e))

SeqToSet(s) == {s[i] : i \in DOMAIN s}

Min(a, b) == IF a < b THEN a ELSE b
Max(a, b) == IF a > b THEN a ELSE b

\* ------------------------------------------------- float64 arithmetic
\* The per-query metric values and their mean are IEEE-754 doubles (C double
\* in the evaluator, numpy.float64 in np.mean).  A finite non-negative
\* double is <<hi, lo, e>>, standing for (hi * 2^27 + lo) * 2^e with
\* 2^52 <= hi * 2^27 + lo < 2^53, and zero is <<0, 0, 0>>; the mantissa is kept
\* in two limbs of 27 bits so that every intermediate fits 32-bit integers.
LimbBits == 27
Limb == 2^LimbBits
TopBit == 2^(LimbBits - 2)

FZero == <<0, 0, 0>>

\* two-limb natural numbers <<hi, lo>>
WGe(a, b) == a[1] > b[1] \/ (a[1] = b[1] /\ a[2] >= b[2])

WSub(a, b) == IF a[2] >= b[2] THEN <<a[1] - b[1], a[2] - b[2]>>
              ELSE <<a[1] - b[1] - 1, a[2] + Limb - b[2]>>

WAdd(a, b) == LET l == a[2] + b[2]
              IN  <<a[1] + b[1] + (l \div Limb), l % Limb>>

\* w * t for a small factor t <= 16
WMulSmall(w, t) == LET l == w[2] * t
                   IN  <<w[1] * t + (l \div Limb), l % Limb>>

\* a shift right by k < 27 bits: <<the word, whether a 1 bit was lost>>
WShrSmall(a, k) ==
    LET p == 2^k
    IN  << <<a[1] \div p, (a[2] \div p) + (a[1] % p) * (Limb \div p)>>,
           (a[2] % p) # 0 >>

\* a shift right by any k
RECURSIVE WShr(_, _, _)
WShr(a, k, sticky) ==
    IF k >= LimbBits
    THEN WShr(<<0, a[1]>>, k - LimbBits, sticky \/ a[2] # 0)
    ELSE LET r == WShrSmall(a, k) IN <<r[1], sticky \/ r[2]>>

\* Round to nearest, ties to even: w in [2^55, 2^56) holds the mantissa and
\* three further bits of a value w * 2^e; sticky tells whether 1 bits were
\* lost below them.
\* the mantissa: w without its three lowest bits
Mant(w) == <<w[1] \div 8, (w[2] \div 8) + (w[1] % 8) * (Limb \div 8)>>

\* the mantissa m rounded by the three bits `low` and the sticky bit
RoundUp(m, low, sticky) ==
    IF low > 4 \/ (low = 4 /\ (sticky \/ m[2] % 2 = 1))
    THEN WAdd(m, <<0, 1>>) ELSE m

\* a rounded mantissa r <= 2^53 with its exponent, as a double
Renorm(r, e) ==
    IF r[1] >= 2 * TopBit
    THEN <<r[1] \div 2, r[2] \div 2 + (r[1] % 2) * (Limb \div 2), e + 1>>
    ELSE <<r[1], r[2], e>>

FRound(w, sticky, e) == Renorm(RoundUp(Mant(w), w[2] % 8, sticky), e + 3)

\* FRound of a word h = <<word, lost bit>> that was shifted right by one
FRoundShifted(h, sticky, e) == FRound(h[1], h[2] \/ sticky, e)

\* y's mantissa with three further bits, shifted right by d to x's exponent
Aligned(y, d) ==
    IF d > 2 * LimbBits + 3 THEN << <<0, 0>>, TRUE >>
    ELSE WShr(WMulSmall(<<y[1], y[2]>>, 8), d, FALSE)

\* the sum s of two aligned words, in [2^55, 2^57), rounded
SumRound(s, sticky, e) ==
    IF s[1] >= 16 * TopBit
    THEN FRoundShifted(WShrSmall(s, 1), sticky, e - 2)
    ELSE FRound(s, sticky, e - 3)

AddAligned(x, ys) ==
    SumRound(WAdd(WMulSmall(<<x[1], x[2]>>, 8), ys[1]), ys[2], x[3])

\* x + y for non-zero x, y with x's exponent not below y's
AddOrdered(x, y) == AddAligned(x, Aligned(y, x[3] - y[3]))

\* a + b
FAdd(a, b) ==
    IF a = FZero THEN b
    ELSE IF b = FZero THEN a
    ELSE IF a[3] >= b[3] THEN AddOrdered(a, b)
    ELSE AddOrdered(b, a)

\* one step of the bisection for a quotient digit: t with its bit b set when
\* (t + b) * d still fits in r
DigitBit(r, d, t, b) == IF WGe(r, WMulSmall(d, t + b)) THEN t + b ELSE t

\* the quotient digit floor(r / d) of a remainder r < 16 * d, by bisection
DivDigit(r, d) ==
    DigitBit(r, d, DigitBit(r, d, DigitBit(r, d, DigitBit(r, d, 0, 8), 4), 2), 1)

\* the quotient q16 and remainder r16, both already times 16, after the
\* digit t
DivStep(q16, r16, d, t) == <<WAdd(q16, <<0, t>>), WSub(r16, WMulSmall(d, t))>>

\* long division in base 16: st = <<quotient, remainder>>, k digits to go;
\* once the remainder is zero the digits left are zeros
RECURSIVE WDivDigits(_, _, _)
WDivDigits(st, d, k) ==
    IF k = 0 THEN st
    ELSE IF st[2] = <<0, 0>>
    THEN WDivDigits(<<WMulSmall(st[1], 16), st[2]>>, d, k - 1)
    ELSE WDivDigits(DivStep(WMulSmall(st[1], 16), WMulSmall(st[2], 16), d,
                            DivDigit(WMulSmall(st[2], 16), d)), d, k - 1)

\* the quotient of two mantissas to 56 or 57 bits, with the remainder
MantDiv(ma, mb) ==
    IF WGe(ma, mb)
    THEN WDivDigits(<< <<0, 1>>, WSub(ma, mb) >>, mb, 14)
    ELSE WDivDigits(<< <<0, 0>>, ma >>, mb, 14)

\* the quotient qr = <<quotient, remainder>> rounded: a 57-bit quotient
\* loses its lowest bit first
QuotRound(qr, e) ==
    IF qr[1][1] >= 16 * TopBit
    THEN FRoundShifted(WShrSmall(qr[1], 1), qr[2] # <<0, 0>>, e - 55)
    ELSE FRound(qr[1], qr[2] # <<0, 0>>, e - 56)

\* a / b for b # 0: the quotient of the mantissas to 56 bits and a sticky
\* bit, then rounded
FDiv(a, b) ==
    IF a = FZero THEN FZero
    ELSE QuotRound(MantDiv(<<a[1], a[2]>>, <<b[1], b[2]>>), a[3] - b[3])

\* the double of a natural number n < 2^26 (exact)
BitLen(n) == CHOOSE b \in 1..(LimbBits - 1) : 2^(b - 1) <= n /\ n < 2^b

FFromInt(n) == IF n = 0 THEN FZero
               ELSE <<n * 2^(LimbBits - 1 - BitLen(n)), 0,
                      BitLen(n) - 2 * LimbBits + 1>>

\* a <= b
FLe(a, b) ==
    \/ a = FZero
    \/ /\ b # FZero
       /\ \/ a[3] < b[3]
          \/ a[3] = b[3] /\ WGe(<<b[1], b[2]>>, <<a[1], a[2]>>)

\* ------------------------------------------------- the search backend
\* tie_breaker = 0.5 of generate_request, as a fraction
TieBreakerNum == 1
TieBreakerDen == 2

\* Per-field lexical score of document d for the query whose text is q (a
\* fixture standing for BM25 on the dataset's texts): queries 1 and 2 match
\* several documents, with ties, and every third query matches nothing.
FieldScore(field, q, d) ==
    IF q % 3 = 0 THEN 0
    ELSE IF field = "title" THEN (q * d) % 3
    ELSE (q + d) % 2

\* multi_match, type best_fields: the best field's score plus tie_breaker
\* times the other fields' scores (in units of 1/TieBreakerDen)
MultiMatchScore(body, d) ==
    LET t == FieldScore(body.fields[1], body.query, d)
        x == FieldScore(body.fields[2], body.query, d)
    IN  IF body.type = "best_fields"
        THEN TieBreakerDen * Max(t, x) + TieBreakerNum * Min(t, x)
        ELSE TieBreakerDen * (t + x)

\* the best remaining hit: highest score, lowest id among equal scores
BestDoc(body, docs) ==
    CHOOSE d \in docs :
        \A e \in docs :
            \/ MultiMatchScore(body, d) > MultiMatchScore(body, e)
            \/ /\ MultiMatchScore(body, d) = MultiMatchScore(body, e)
               /\ d <= e

RECURSIVE TopHits(_, _, _)
TopHits(body, docs, n) ==
    IF n = 0 \/ docs = {} THEN <<>>
    ELSE LET d == BestDoc(body, docs)
         IN  <<[_id |-> d, _score |-> MultiMatchScore(body, d)]>>
                 \o TopHits(body, docs \ {d}, n - 1)

\* one search of a multi-search: the matching documents by descending
\* score, cut to the body's "size"
Search(body, docs) ==
    TopHits(body, {d \in docs : MultiMatchScore(body, d) > 0}, body.size)

\* The responses of one msearch call over the header/body pairs of
\* `searches`; the search at position failAt (0: none) is answered with an
\* error item, which carries no "hits".
Msearch(searches, docs, failAt) ==
    [i \in 1..(Len(searches) \div 2) |->
        IF i = failAt
        THEN [error |-> TRUE, hits |-> <<>>]
        ELSE [error |-> FALSE, hits |-> Search(searches[2 * i], docs)]]

\* ------------------------------------------------------------- retrieve()
\* generate_request asking for one hit more than the caller's size
generate_request_OffByOne(query_text, sz) ==
    [_source |-> FALSE,
     query |-> query_text,
     type |-> "best_fields",
     fields |-> <<"title", "txt">>,
     size |-> sz + 1]

generate_request(query_text, sz) ==
    [_source |-> FALSE,
     query |-> query_text,
     type |-> "best_fields",
     fields |-> <<"title", "txt">>,
     size |-> sz]

\* {hit["_id"]: hit["_score"] for hit in resp["hits"]["hits"]}
RECURSIVE HitsDict(_)
HitsDict(hits) ==
    IF hits = <<>> THEN <<>>
    ELSE DictSet(HitsDict(SubSeq(hits, 1, Len(hits) - 1)),
                 hits[Len(hits)]._id, hits[Len(hits)]._score)

\* the for loop of retrieve_batch over zip(query_ids, responses); resp["hits"]
\* raises on an error item, the except clause prints, and batch_dict is
\* returned as filled so far
RECURSIVE HandleResponses(_, _, _)
HandleResponses(query_ids, responses, batch_dict) ==
    IF query_ids = <<>> \/ responses = <<>> THEN batch_dict
    ELSE IF Head(responses).error THEN batch_dict
    ELSE HandleResponses(Tail(query_ids), Tail(responses),
                         DictSet(batch_dict, Head(query_ids),
                                 HitsDict(Head(responses).hits)))

\* retrieve_batch once msearch has raised (raised = TRUE) or returned
retrieve_batch(query_ids, call_raised, responses) ==
    IF call_raised THEN <<>>
    ELSE HandleResponses(query_ids, responses, <<>>)

\* retrieve() going on without waiting for the call to return
AfterSend_NoWait(ret) == IF ret = "loop" THEN "loop" ELSE "return"

\* where retrieve() stands after handing a batch to msearch: it blocks
\* until the call returns
AfterSend(ret) == IF ret = "loop" THEN "await_batch" ELSE "await_leftover"

\* a batch sent only once it holds one query more than batch_size
BatchFull_OffByOne(ids, bs) == Len(ids) = bs + 1

\* len(qids) == batch_size
BatchFull(ids, bs) == Len(ids) = bs

\* the leftover check left out
HasLeftover_Never(ids) == FALSE

\* len(qids) > 0
HasLeftover(ids) == Len(ids) > 0

SendBatch(ids, reqs) ==
    /\ inflight' = Append(inflight, [qids |-> ids, searches |-> reqs])
    /\ batchLog' = Append(batchLog,
                          [qids |-> ids, searches |-> reqs,
                           outcome |-> "pending", failAt |-> 0])

\* one iteration of `for query in queries`, up to the msearch call
ForQuery ==
    /\ pc = "loop"
    /\ qi < Len(queries)
    /\ LET q == queries[qi + 1]
           ids == Append(qids, q)
           reqs == requests \o <<[hdr |-> TRUE], generate_request(q, size)>>
       IN  /\ qi' = qi + 1
           /\ qids' = ids
           /\ requests' = reqs
           /\ IF BatchFull(ids, batch_size)
              THEN /\ SendBatch(ids, reqs)
                   /\ pc' = AfterSend("loop")
              ELSE /\ UNCHANGED <<inflight, batchLog>>
                   /\ pc' = "loop"
    /\ UNCHANGED <<indexVars, dataVars, size, batch_size, es_responses,
                   bm25_responses, rerankVars, judgeVars, evalVars, raised>>

\* the leftover check after the loop, up to the msearch call
Leftover ==
    /\ pc = "loop"
    /\ qi = Len(queries)
    /\ IF HasLeftover(qids)
       THEN /\ SendBatch(qids, requests)
            /\ pc' = AfterSend("leftover")
       ELSE /\ UNCHANGED <<inflight, batchLog>>
            /\ pc' = "return"
    /\ UNCHANGED <<indexVars, dataVars, size, batch_size, qi, qids, requests,
                   es_responses, bm25_responses, rerankVars, judgeVars, evalVars, raised>>

\* the rest of retrieve_batch and of the caller's statement:
\* es_responses.update(retrieve_batch(qids, requests)); qids, requests = [], []
FinishBatch(call_raised, failAt) ==
    /\ inflight # <<>>
    /\ LET req == Head(inflight)
           responses == IF call_raised THEN <<>>
                        ELSE Msearch(req.searches, indexDocs, failAt)
           batch_dict == retrieve_batch(req.qids, call_raised, responses)
       IN  /\ es_responses' = DictUpdate(es_responses, batch_dict)
           /\ batchLog' = [batchLog EXCEPT ![Len(batchLog)] =
                  [@ EXCEPT !.outcome = IF call_raised THEN "raised"
                                        ELSE IF failAt # 0 THEN "error"
                                        ELSE "ok",
                            !.failAt = failAt]]
    /\ inflight' = Tail(inflight)
    /\ qids' = <<>>
    /\ requests' = <<>>
    /\ pc' = IF pc = "await_batch" THEN "loop" ELSE "return"
    /\ UNCHANGED <<indexVars, dataVars, size, batch_size, qi, bm25_responses,
                   rerankVars, judgeVars, evalVars, raised>>

\* msearch returns a response; every search answered
MsearchReturns ==
    /\ pc \in {"await_batch", "await_leftover"}
    /\ FinishBatch(FALSE, 0)

\* msearch returns a response whose item failAt is an error
MsearchItemError ==
    /\ pc \in {"await_batch", "await_leftover"}
    /\ inflight # <<>>
    /\ \E failAt \in 1..Len(Head(inflight).qids) : FinishBatch(FALSE, failAt)

\* msearch raises (transport error, timeout, API error)
MsearchRaises ==
    /\ pc \in {"await_batch", "await_leftover"}
    /\ FinishBatch(TRUE, 0)

\* return es_responses, bound to bm25_responses by the calling cell
Return ==
    /\ pc = "return"
    /\ bm25_responses' = es_responses
    /\ pc' = "retrieved"
    /\ UNCHANGED <<indexVars, dataVars, retrieveVars, rerankVars, judgeVars, evalVars, raised>>

\* ------------------------------------------ create_index / index_corpus
\* indices.create answers 400 (resource_already_exists_exception) for an
\* index that exists and 200 otherwise
CreateStatus(exists) == IF exists THEN 400 ELSE 200

\* the client used without ignore_status
IgnoreStatus_None == {}

\* es_client.options(ignore_status=[400])
IgnoreStatus == {400}

\* the client raises an ApiError for an error status that is not ignored
ClientRaises(status) == status >= 300 /\ status \notin IgnoreStatus

\* create_index(name=INDEX_NAME, es_client=client), analyzer "english"
CreateIndex ==
    /\ pc = "create_index"
    /\ LET status == CreateStatus(indexExists)
       IN  /\ lastStatus' = status
           /\ IF status = 200
              THEN /\ indexExists' = TRUE
                   /\ indexAnalyzer' = "english"
                   /\ indexDocs' = {}
                   /\ indexPending' = {}
              ELSE UNCHANGED <<indexExists, indexAnalyzer, indexDocs,
                               indexPending>>
           /\ pc' = IF ClientRaises(status) THEN "raised" ELSE "created"
           /\ raised' = IF ClientRaises(status) THEN "ApiError" ELSE raised
    /\ UNCHANGED <<corpus, bulkPos, dataVars, retrieveVars, bm25_responses,
                   rerankVars, judgeVars, evalVars>>

\* the notebook is run again from the create_index cell
RunCreateAgain ==
    /\ pc \in {"created", "indexed"}
    /\ pc' = "create_index"
    /\ bulkPos' = 0
    /\ UNCHANGED <<indexExists, indexAnalyzer, indexDocs, indexPending,
                   lastStatus, corpus, dataVars, retrieveVars, bm25_responses,
                   rerankVars, judgeVars, evalVars, raised>>

\* rows sent per bulk request by the helper (its chunk_size)
ChunkSize == 2

\* an "index" operation writes the document under its _id, replacing a
\* document of the same id
IndexOp(docs, rows) == docs \cup SeqToSet(rows)

\* bulk(): the next chunk of get_iterable() is written
BulkChunk ==
    /\ pc \in {"created", "bulk"}
    /\ bulkPos < Len(corpus)
    /\ LET last == Min(bulkPos + ChunkSize, Len(corpus))
       IN  /\ indexPending' =
                  IndexOp(indexPending, SubSeq(corpus, bulkPos + 1, last))
           /\ bulkPos' = last
    /\ pc' = "bulk"
    /\ UNCHANGED <<indexExists, indexAnalyzer, indexDocs, lastStatus, corpus,
                   dataVars, retrieveVars, bm25_responses, rerankVars, judgeVars, evalVars, raised>>

\* bulk() raises (BulkIndexError or a transport error after max_retries);
\* the chunks already written stay written
BulkRaises ==
    /\ pc \in {"created", "bulk"}
    /\ bulkPos < Len(corpus)
    /\ pc' = "raised"
    /\ raised' = "BulkIndexError"
    /\ UNCHANGED <<indexVars, dataVars, retrieveVars, bm25_responses,
                   rerankVars, judgeVars, evalVars>>

\* what a refresh makes searchable
Refreshed(visible, pending) == visible \cup pending

\* the index's own periodic refresh
AutoRefresh ==
    /\ pc = "bulk"
    /\ indexPending # {}
    /\ indexDocs' = Refreshed(indexDocs, indexPending)
    /\ indexPending' = {}
    /\ UNCHANGED <<pc, indexExists, indexAnalyzer, lastStatus, corpus, bulkPos,
                   dataVars, retrieveVars, bm25_responses, rerankVars, judgeVars, evalVars, raised>>

\* es_client.indices.refresh(index=index_name); index_corpus returns
Refresh ==
    /\ pc \in {"created", "bulk"}
    /\ bulkPos = Len(corpus)
    /\ indexDocs' = Refreshed(indexDocs, indexPending)
    /\ indexPending' = {}
    /\ pc' = "indexed"
    /\ UNCHANGED <<indexExists, indexAnalyzer, lastStatus, corpus, bulkPos,
                   dataVars, retrieveVars, bm25_responses, rerankVars, judgeVars, evalVars, raised>>

\* client.count on the index: the number of searchable documents
IndexCount == Cardinality(indexDocs)

\* ------------------------------------------- download_queries_and_qrels
\* Fixture for the raw qrels split: every query judges every corpus
\* document but one, with a graded score 0..2.
HasJudgment(q, d) == d \in DocIds /\ d # (q % MaxDocs) + 1
Judgment(q, d) == (q + d) % 3

RECURSIVE RowsFor(_, _)
RowsFor(q, d) ==
    IF d > MaxDocs THEN <<>>
    ELSE (IF HasJudgment(q, d)
          THEN <<[query_id |-> q, corpus_id |-> d, score |-> Judgment(q, d)]>>
          ELSE <<>>) \o RowsFor(q, d + 1)

\* the rows of the raw qrels split, for the judged queries in id order
RECURSIVE QrelsRaw(_, _)
QrelsRaw(js, q) ==
    IF q > MaxQueries THEN <<>>
    ELSE (IF q \in js THEN RowsFor(q, 1) ELSE <<>>) \o QrelsRaw(js, q + 1)

\* qrels[q["query-id"]][q["corpus-id"]] = int(q["score"]) over a defaultdict
RECURSIVE BuildQrels(_, _)
BuildQrels(rows, acc) ==
    IF rows = <<>> THEN acc
    ELSE LET r == Head(rows)
             inner == IF DictHas(acc, r.query_id)
                      THEN DictGet(acc, r.query_id) ELSE <<>>
         IN  BuildQrels(Tail(rows),
                        DictSet(acc, r.query_id,
                                DictSet(inner, r.corpus_id, r.score)))

\* the raw queries split: one row per query id
QueriesRaw == [i \in 1..MaxQueries |-> i]

\* the queries split used unfiltered
KeepQuery_All(id, qr) == TRUE

\* .filter(lambda r: r["_id"] in qrels)
KeepQuery(id, qr) == DictHas(qr, id)

RECURSIVE FilterQueries(_, _)
FilterQueries(rows, qr) ==
    IF rows = <<>> THEN <<>>
    ELSE (IF KeepQuery(Head(rows), qr) THEN <<Head(rows)>> ELSE <<>>)
             \o FilterQueries(Tail(rows), qr)

DownloadQueriesAndQrels ==
    /\ pc = "download"
    /\ LET qr == BuildQrels(QrelsRaw(judged, 1), <<>>)
       IN  /\ qrels' = qr
           /\ queries' = FilterQueries(QueriesRaw, qr)
    /\ pc' = "loop"
    /\ UNCHANGED <<indexVars, judged, retrieveVars, bm25_responses,
                   rerankVars, judgeVars, evalVars, raised>>

\* ------------------------------------------------------ evaluation cells
\* METRICS_TO_EVALUATE = {"ndcg_cut_10"}: the rank cutoff of the metric
NdcgCut == 10

\* log2(i + 1) for the ranks i = 1..10, as doubles
Log2OfRank ==
    << <<33554432, 0, -52>>,        \* log2(2)  = 1.0
       <<53182516, 60800360, -52>>, \* log2(3)  = 1.584962500721156
       <<33554432, 0, -51>>,        \* log2(4)  = 2.0
       <<38955489, 24748913, -51>>, \* log2(5)  = 2.321928094887362
       <<43368474, 30400180, -51>>, \* log2(6)  = 2.584962500721156
       <<47099599, 122946605, -51>>,\* log2(7)  = 2.807354922057604
       <<50331648, 0, -51>>,        \* log2(8)  = 3.0
       <<53182516, 60800360, -51>>, \* log2(9)  = 3.169925001442312
       <<55732705, 24748913, -51>>, \* log2(10) = 3.321928094887362
       <<58039631, 67525954, -51>> >> \* log2(11) = 3.4594316186372973

\* a ranking by ascending score
RECURSIVE TrecRanked_Ascending(_)
TrecRanked_Ascending(items) ==
    IF items = <<>> THEN <<>>
    ELSE LET i == CHOOSE i \in DOMAIN items :
                      \A j \in DOMAIN items :
                          \/ items[j][2] > items[i][2]
                          \/ items[j][2] = items[i][2] /\ items[j][1] <= items[i][1]
         IN  <<items[i][1]>> \o
             TrecRanked_Ascending(SubSeq(items, 1, i - 1) \o
                                  SubSeq(items, i + 1, Len(items)))

\* the evaluator ranks a query's documents by descending score and, among
\* equal scores, by descending document id
RECURSIVE TrecRanked(_)
TrecRanked(items) ==
    IF items = <<>> THEN <<>>
    ELSE LET i == CHOOSE i \in DOMAIN items :
                      \A j \in DOMAIN items :
                          \/ items[j][2] < items[i][2]
                          \/ items[j][2] = items[i][2] /\ items[j][1] <= items[i][1]
         IN  <<items[i][1]>> \o
             TrecRanked(SubSeq(items, 1, i - 1) \o
                        SubSeq(items, i + 1, Len(items)))

\* the gain of a document: its judged relevance when positive, else 0
Gain(qrel, doc_id) ==
    IF DictHas(qrel, doc_id) /\ DictGet(qrel, doc_id) > 0
    THEN DictGet(qrel, doc_id) ELSE 0

\* a sequence of integers by descending value
RECURSIVE SortDesc(_)
SortDesc(s) ==
    IF s = <<>> THEN <<>>
    ELSE LET i == CHOOSE i \in DOMAIN s : \A j \in DOMAIN s : s[j] <= s[i]
         IN  <<s[i]>> \o SortDesc(SubSeq(s, 1, i - 1) \o SubSeq(s, i + 1, Len(s)))

\* the gains of the ideal ranking: the judged documents by descending gain
IdealGains(qrel) == SortDesc([i \in DOMAIN qrel |-> Gain(qrel, qrel[i][1])])

\* discounted cumulative gain of the ranks i.. up to the cutoff:
\* sum += gain / log2(rank + 1)
RECURSIVE DCG(_, _, _)
DCG(gains, i, sum) ==
    IF i > Len(gains) \/ i > NdcgCut THEN sum
    ELSE DCG(gains, i + 1,
             FAdd(sum, FDiv(FFromInt(gains[i]), Log2OfRank[i])))

\* the gains of a ranking, rank by rank
RankedGains(qrel, ranked) == [i \in DOMAIN ranked |-> Gain(qrel, ranked[i])]

\* the DCG over the ideal DCG, left as it is when the ideal DCG is 0
Normalize(dcg, ideal_dcg) ==
    IF ideal_dcg # FZero THEN FDiv(dcg, ideal_dcg) ELSE dcg

\* ndcg_cut_10 of one query: the DCG of its ranking over the ideal DCG of
\* its judgments, and 0 when no document is judged relevant
NDCG(qrel, doc_scores) ==
    Normalize(DCG(RankedGains(qrel, TrecRanked(doc_scores)), 1, FZero),
              DCG(IdealGains(qrel), 1, FZero))

\* evaluator.evaluate(run): one value per query of the run that has
\* judgments, in the order of the run
RECURSIVE Evaluate(_, _)
Evaluate(qr, run) ==
    IF run = <<>> THEN <<>>
    ELSE (IF DictHas(qr, Head(run)[1])
          THEN <<<<Head(run)[1], NDCG(DictGet(qr, Head(run)[1]), Head(run)[2])>>>>
          ELSE <<>>) \o Evaluate(qr, Tail(run))

\* eval_scores["ndcg_cut_10"]: the values of the dict, in its order
MetricScores(per_query) == [i \in DOMAIN per_query |-> per_query[i][2]]

\* the sum np.mean accumulates over fewer than 8 values: left to right
RECURSIVE FSum(_, _)
FSum(scores, acc) ==
    IF scores = <<>> THEN acc
    ELSE FSum(Tail(scores), FAdd(acc, Head(scores)))

\* a mean that divides by one more than the number of values
Mean_CountOffByOne(scores) ==
    FDiv(FSum(Tail(scores), Head(scores)), FFromInt(Len(scores) + 1))

\* np.mean(_scores) of a non-empty list
Mean(scores) ==
    FDiv(FSum(Tail(scores), Head(scores)), FFromInt(Len(scores)))

\* nothing is printed when no query was evaluated (eval_scores is empty)
NoReport == <<>>

\* a mean over the input queries, a dropped query counting as a score of 0
Report_OverInputQueries(per_query) ==
    IF per_query = <<>> THEN NoReport
    ELSE FDiv(FSum(Tail(MetricScores(per_query)), Head(MetricScores(per_query))),
              FFromInt(Len(queries)))

\* what the aggregation loops print for a dict of per-query values.  The
\* number is printed in its shortest form that reads back as the same
\* double, so two reports are the same text exactly when the doubles are equal.
Report(per_query) ==
    IF per_query = <<>> THEN NoReport ELSE Mean(MetricScores(per_query))

\* the BM25 evaluation cell
EvaluateBM25 ==
    /\ pc = "retrieved"
    /\ eval_per_query' = Evaluate(qrels, bm25_responses)
    /\ ndcg_bm25' = Report(eval_per_query')
    /\ pc' = "evaluated"
    /\ UNCHANGED <<indexVars, dataVars, retrieveVars, bm25_responses,
                   rerankVars, judgeVars, post_reranking_eval_scores_per_query,
                   ndcg_reranked, raised>>

\* the evaluation cell after reranking
EvaluateReranked ==
    /\ pc = "reranked"
    /\ post_reranking_eval_scores_per_query' =
           Evaluate(qrels, results_after_reranking)
    /\ ndcg_reranked' = Report(post_reranking_eval_scores_per_query')
    /\ pc' = "post_evaluated"
    /\ UNCHANGED <<indexVars, dataVars, retrieveVars, bm25_responses,
                   rerankVars, judgeVars, eval_per_query, ndcg_bm25, raised>>

\* ------------------------------------------------------ reranking cell
\* queries_dict = {q["_id"]: q["text"] for q in queries}
RECURSIVE QueriesDict(_)
QueriesDict(qs) ==
    IF qs = <<>> THEN <<>>
    ELSE DictSet(QueriesDict(SubSeq(qs, 1, Len(qs) - 1)),
                 qs[Len(qs)], qs[Len(qs)])

\* corpus_dict = {doc["_id"]: f"{doc['title']} {doc['text']}" for doc in corpus}
RECURSIVE CorpusDict(_)
CorpusDict(rows) ==
    IF rows = <<>> THEN <<>>
    ELSE DictSet(CorpusDict(SubSeq(rows, 1, Len(rows) - 1)),
                 rows[Len(rows)], rows[Len(rows)])

\* doc_ids = [doc_id for doc_id, _ in bm25_res.items()]
DocIdList(bm25_res) == [i \in DOMAIN bm25_res |-> bm25_res[i][1]]

\* Fixture for the cross-encoder: the logit of a (query, document) pair,
\* which may be negative
CrossEncoderScore(query_text, doc_text) == ((query_text + 2 * doc_text) % 5) - 2

\* reranking_model.predict(pairs): one score per pair, in order
Predict(pairs) ==
    [i \in DOMAIN pairs |-> CrossEncoderScore(pairs[i][1], pairs[i][2])]

\* {doc_id: float(score) for doc_id, score in zip(doc_ids, scores)}
RECURSIVE ZipDict(_, _)
ZipDict(doc_ids, scores) ==
    IF doc_ids = <<>> \/ scores = <<>> THEN <<>>
    ELSE DictSet(ZipDict(SubSeq(doc_ids, 1, Len(doc_ids) - 1),
                         SubSeq(scores, 1, Len(doc_ids) - 1)),
                 doc_ids[Len(doc_ids)], scores[Len(doc_ids)])

\* reranking that keeps only the documents the model scores above zero
RerankOne_OnlyPositive(query_text, doc_ids, cdict) ==
    LET keep == SelectSeq(doc_ids, LAMBDA d : CrossEncoderScore(query_text, DictGet(cdict, d)) > 0)
    IN  ZipDict(keep, Predict([i \in DOMAIN keep |-> <<query_text, DictGet(cdict, keep[i])>>]))

\* the value stored for one query by an iteration that does not raise
RerankOne(query_text, doc_ids, cdict) ==
    IF Len(doc_ids) = 0 THEN <<>>
    ELSE LET doc_texts == [i \in DOMAIN doc_ids |-> DictGet(cdict, doc_ids[i])]
             scores == Predict([i \in DOMAIN doc_texts |->
                                   <<query_text, doc_texts[i]>>])
         IN  ZipDict(doc_ids, scores)

\* the reranking loop writing its scores into the first-stage maps
FirstStageAfter_InPlace(first_stage, qid, reranked) ==
    DictSet(first_stage, qid, reranked)

\* bm25_responses after one iteration of the reranking loop, which only
\* reads it (bm25_responses.items(), bm25_res.items())
FirstStageAfter(first_stage, qid, reranked) == first_stage

\* results_after_reranking = dict(), then the for loop is entered
StartRerank ==
    /\ pc = "evaluated"
    /\ results_after_reranking' = <<>>
    /\ ri' = 0
    /\ pc' = "rerank"
    /\ UNCHANGED <<indexVars, dataVars, retrieveVars, bm25_responses,
                   judgeVars, evalVars, raised>>

\* one iteration of `for qid, bm25_res in bm25_responses.items()`; the
\* lookups queries_dict[qid] and corpus_dict[doc_id] raise KeyError on a miss
RerankQuery ==
    /\ pc = "rerank"
    /\ ri < Len(bm25_responses)
    /\ LET qid == bm25_responses[ri + 1][1]
           bm25_res == bm25_responses[ri + 1][2]
           qdict == QueriesDict(queries)
           cdict == CorpusDict(corpus)
           doc_ids == DocIdList(bm25_res)
       IN  IF ~DictHas(qdict, qid)
           THEN /\ pc' = "raised"
                /\ raised' = "KeyError: queries_dict[qid]"
                /\ UNCHANGED <<ri, results_after_reranking, bm25_responses>>
           ELSE IF \E i \in DOMAIN doc_ids : ~DictHas(cdict, doc_ids[i])
           THEN /\ pc' = "raised"
                /\ raised' = "KeyError: corpus_dict[doc_id]"
                /\ UNCHANGED <<ri, results_after_reranking, bm25_responses>>
           ELSE LET reranked == RerankOne(DictGet(qdict, qid), doc_ids, cdict)
                IN  /\ results_after_reranking' =
                           DictSet(results_after_reranking, qid, reranked)
                    /\ bm25_responses' =
                           FirstStageAfter(bm25_responses, qid, reranked)
                    /\ ri' = ri + 1
                    /\ pc' = "rerank"
                    /\ UNCHANGED raised
    /\ UNCHANGED <<indexVars, dataVars, retrieveVars, judgeVars, evalVars>>

\* the loop is exhausted
EndRerank ==
    /\ pc = "rerank"
    /\ ri = Len(bm25_responses)
    /\ pc' = "reranked"
    /\ UNCHANGED <<indexVars, dataVars, retrieveVars, bm25_responses,
                   rerankVars, judgeVars, evalVars, raised>>

\* ------------------------------------------------------ judge-rate cells
TOP_K == 10

\* sorted(doc_scores.items(), key=lambda x: x[1], reverse=True): a stable
\* sort, so items of equal score keep their order
RECURSIVE SortedByScoreDesc(_)
SortedByScoreDesc(items) ==
    IF items = <<>> THEN <<>>
    ELSE LET i == CHOOSE i \in DOMAIN items :
                      /\ \A j \in DOMAIN items : items[j][2] <= items[i][2]
                      /\ \A j \in 1..(i - 1) : items[j][2] < items[i][2]
         IN  <<items[i]>> \o
             SortedByScoreDesc(SubSeq(items, 1, i - 1) \o
                               SubSeq(items, i + 1, Len(items)))

\* top_k_doc_ids
TopKDocIds(doc_scores) ==
    LET srt == SortedByScoreDesc(doc_scores)
    IN  [i \in 1..Min(TOP_K, Len(srt)) |-> srt[i][1]]

\* qrels[qid] is evaluated for every query with at least one document
JudgeRateMisses(ranking, qr) ==
    \E i \in DOMAIN ranking :
        /\ Len(TopKDocIds(ranking[i][2])) # 0
        /\ ~DictHas(qr, ranking[i][1])

\* nr_labeled_docs of a query whose top documents are `top`
LabeledDocs(labels, top) ==
    Cardinality({i \in DOMAIN top : DictHas(labels, top[i])})

\* judge_rate_per_query as the loop leaves it: one
\* <<nr_labeled_docs, len(top_k_doc_ids)>> per query with at least one
\* document, up to the first such query that qrels[qid] misses, where the
\* KeyError ends the loop
RECURSIVE JudgeRates(_, _)
JudgeRates(ranking, qr) ==
    IF ranking = <<>> THEN <<>>
    ELSE IF Len(TopKDocIds(Head(ranking)[2])) = 0
    THEN JudgeRates(Tail(ranking), qr)
    ELSE IF ~DictHas(qr, Head(ranking)[1]) THEN <<>>
    ELSE <<<<LabeledDocs(DictGet(qr, Head(ranking)[1]),
                         TopKDocIds(Head(ranking)[2])),
             Len(TopKDocIds(Head(ranking)[2]))>>>>
             \o JudgeRates(Tail(ranking), qr)

\* the "judge rate" cell over bm25_responses: the list is reset and filled,
\* also when a KeyError stops the cell part-way
JudgeRateBM25 ==
    /\ pc = "post_evaluated"
    /\ judge_rate_per_query' = JudgeRates(bm25_responses, qrels)
    /\ IF JudgeRateMisses(bm25_responses, qrels)
       THEN /\ pc' = "raised"
            /\ raised' = "KeyError: qrels[qid]"
       ELSE /\ pc' = "judged_bm25"
            /\ UNCHANGED raised
    /\ UNCHANGED <<indexVars, dataVars, retrieveVars, bm25_responses,
                   rerankVars, evalVars>>

\* the "judge rate" cell over results_after_reranking, on the same list
JudgeRateReranked ==
    /\ pc = "judged_bm25"
    /\ judge_rate_per_query' = JudgeRates(results_after_reranking, qrels)
    /\ IF JudgeRateMisses(results_after_reranking, qrels)
       THEN /\ pc' = "raised"
            /\ raised' = "KeyError: qrels[qid]"
       ELSE /\ pc' = "done"
            /\ UNCHANGED raised
    /\ UNCHANGED <<indexVars, dataVars, retrieveVars, bm25_responses,
                   rerankVars, evalVars>>

\* ------------------------------------------------------- specifications
CorpusRows == [i \in 1..MaxDocs |-> i]

\* sequences of distinct document ids (the dataset's _id is its key)
DistinctSeqs(S, n) ==
    {s \in UNION {[1..k -> S] : k \in 0..n} :
        \A i, j \in DOMAIN s : i # j => s[i] # s[j]}

\* The pipeline from the dataset download on, over an index that holds the
\* corpus and possibly a document left by an earlier run.
Init ==
    /\ pc = "download"
    /\ indexExists = TRUE
    /\ indexAnalyzer = "english"
    /\ indexDocs \in {DocIds, DocIds \cup {StaleDoc}}
    /\ indexPending = {}
    /\ lastStatus = 200
    /\ corpus = CorpusRows
    /\ bulkPos = Len(CorpusRows)
    /\ judged \in SUBSET QueryIds
    /\ queries = <<>>
    /\ qrels = <<>>
    /\ size \in 1..MaxSize
    /\ batch_size \in 1..MaxBatch
    /\ qi = 0
    /\ qids = <<>>
    /\ requests = <<>>
    /\ es_responses = <<>>
    /\ inflight = <<>>
    /\ batchLog = <<>>
    /\ bm25_responses = <<>>
    /\ ri = 0
    /\ results_after_reranking = <<>>
    /\ judge_rate_per_query = <<>>
    /\ eval_per_query = <<>>
    /\ ndcg_bm25 = NoReport
    /\ post_reranking_eval_scores_per_query = <<>>
    /\ ndcg_reranked = NoReport
    /\ raised = "none"

Next ==
    \/ DownloadQueriesAndQrels
    \/ ForQuery
    \/ Leftover
    \/ MsearchReturns
    \/ MsearchItemError
    \/ MsearchRaises
    \/ Return
    \/ EvaluateBM25
    \/ StartRerank
    \/ RerankQuery
    \/ EndRerank
    \/ EvaluateReranked
    \/ JudgeRateBM25
    \/ JudgeRateReranked

Spec == Init /\ [][Next]_vars

\* The indexing cells: create_index, then index_corpus(corpus), over a
\* deployment where the index may already exist with any content.
InitIndex ==
    /\ pc = "create_index"
    /\ indexExists \in BOOLEAN
    /\ indexAnalyzer \in {"english", "standard"}
    /\ indexDocs \in SUBSET (DocIds \cup {StaleDoc})
    /\ indexExists = FALSE => indexDocs = {} /\ indexAnalyzer = "english"
    /\ indexPending = {}
    /\ lastStatus = 0
    /\ corpus \in DistinctSeqs(DocIds, MaxDocs)
    /\ bulkPos = 0
    /\ judged = {}
    /\ queries = <<>>
    /\ qrels = <<>>
    /\ size = 1
    /\ batch_size = 1
    /\ qi = 0
    /\ qids = <<>>
    /\ requests = <<>>
    /\ es_responses = <<>>
    /\ inflight = <<>>
    /\ batchLog = <<>>
    /\ bm25_responses = <<>>
    /\ ri = 0
    /\ results_after_reranking = <<>>
    /\ judge_rate_per_query = <<>>
    /\ eval_per_query = <<>>
    /\ ndcg_bm25 = NoReport
    /\ post_reranking_eval_scores_per_query = <<>>
    /\ ndcg_reranked = NoReport
    /\ raised = "none"

NextIndex ==
    \/ CreateIndex
    \/ RunCreateAgain
    \/ BulkChunk
    \/ BulkRaises
    \/ AutoRefresh
    \/ Refresh

SpecIndex == InitIndex /\ [][NextIndex]_vars

\* The evaluation cells on their own: the judgments of the fixture and a
\* first-stage result drawn from a bounded set of ranking results.  Every
\* query's batch was dropped (-1), or it got no hit (0), or it got `size`
\* documents starting at one of the first `size` documents of the corpus.
EvalRanking(s, n) ==
    [k \in 1..n |-> <<((s + k - 2) % MaxDocs) + 1, 2 * (n - k + 1)>>]

RECURSIVE EvalRun(_, _, _)
EvalRun(choice, sz, q) ==
    IF q > MaxQueries THEN <<>>
    ELSE (IF choice[q] < 0 THEN <<>>
          ELSE IF choice[q] = 0 THEN <<<<q, <<>>>>>>
          ELSE <<<<q, EvalRanking(choice[q], sz)>>>>)
             \o EvalRun(choice, sz, q + 1)

InitEval ==
    /\ pc = "retrieved"
    /\ indexExists = TRUE
    /\ indexAnalyzer = "english"
    /\ indexDocs = DocIds
    /\ indexPending = {}
    /\ lastStatus = 200
    /\ corpus = CorpusRows
    /\ bulkPos = Len(CorpusRows)
    /\ judged = QueryIds
    /\ qrels = BuildQrels(QrelsRaw(QueryIds, 1), <<>>)
    /\ queries = FilterQueries(QueriesRaw, qrels)
    /\ size = MaxSize
    /\ batch_size = 1
    /\ qi = MaxQueries
    /\ qids = <<>>
    /\ requests = <<>>
    /\ bm25_responses \in
           {EvalRun(choice, size, 1) : choice \in [QueryIds -> (-1)..MaxSize]}
    /\ es_responses = bm25_responses
    /\ inflight = <<>>
    /\ batchLog = <<>>
    /\ ri = 0
    /\ results_after_reranking = <<>>
    /\ judge_rate_per_query = <<>>
    /\ eval_per_query = <<>>
    /\ ndcg_bm25 = NoReport
    /\ post_reranking_eval_scores_per_query = <<>>
    /\ ndcg_reranked = NoReport
    /\ raised = "none"

NextEval ==
    \/ EvaluateBM25
    \/ StartRerank
    \/ RerankQuery
    \/ EndRerank
    \/ EvaluateReranked

SpecEval == InitEval /\ [][NextEval]_vars

\* The BM25 evaluation cell on one query with hand-written inputs: the
\* judgments give a grade 0 or 1 to some documents (at least one), and the
\* ranking holds at most MaxSize documents with scores 0.1 or 0.9, written
\* in tenths (the evaluator only compares scores).
ExampleQuery == Head(QueriesRaw)

ExampleJudgments ==
    {j \in DistinctSeqs(DocIds \X {0, 1}, MaxDocs) :
        /\ j # <<>>
        /\ \A a, b \in DOMAIN j : a < b => j[a][1] < j[b][1]}

ExampleRankings ==
    {r \in DistinctSeqs(DocIds \X {1, 9}, MaxSize) :
        \A a, b \in DOMAIN r : a # b => r[a][1] # r[b][1]}

InitExample ==
    /\ pc = "retrieved"
    /\ indexExists = TRUE
    /\ indexAnalyzer = "english"
    /\ indexDocs = DocIds
    /\ indexPending = {}
    /\ lastStatus = 200
    /\ corpus = CorpusRows
    /\ bulkPos = Len(CorpusRows)
    /\ judged = {ExampleQuery}
    /\ qrels \in {<<<<ExampleQuery, j>>>> : j \in ExampleJudgments}
    /\ queries = <<ExampleQuery>>
    /\ size = MaxSize
    /\ batch_size = 1
    /\ qi = 1
    /\ qids = <<>>
    /\ requests = <<>>
    /\ bm25_responses \in {<<<<ExampleQuery, r>>>> : r \in ExampleRankings}
    /\ es_responses = bm25_responses
    /\ inflight = <<>>
    /\ batchLog = <<>>
    /\ ri = 0
    /\ results_after_reranking = <<>>
    /\ judge_rate_per_query = <<>>
    /\ eval_per_query = <<>>
    /\ ndcg_bm25 = NoReport
    /\ post_reranking_eval_scores_per_query = <<>>
    /\ ndcg_reranked = NoReport
    /\ raised = "none"

NextExample == EvaluateBM25

SpecExample == InitExample /\ [][NextExample]_vars

\* ================================================================ claims
RECURSIVE FlattenQids(_)
FlattenQids(log) ==
    IF log = <<>> THEN <<>> ELSE Head(log).qids \o FlattenQids(Tail(log))

Failed(b) == b.outcome \in {"raised", "error"}

\* C1: when a batch request fails (msearch raises, or the handling of its
\* response raises part-way through the batch), no query id of that batch
\* is a key of the map retrieve() builds and returns.
C1_FailedBatchHasNoResults ==
    pc = "retrieved" =>
        \A i \in DOMAIN batchLog :
            Failed(batchLog[i]) =>
                \A k \in DOMAIN batchLog[i].qids :
                    ~DictHas(bm25_responses, batchLog[i].qids[k])

\* C2: when no batch request fails and every search is answered, the keys
\* of the map retrieve() returns are exactly the ids of the input queries,
\* whatever the number of queries and the batch size.
C2_OneScoreMapPerQuery ==
    (pc = "retrieved" /\ \A i \in DOMAIN batchLog : batchLog[i].outcome = "ok")
        => DictKeys(bm25_responses) = SeqToSet(queries)

\* a run with a full batch followed by a leftover batch, none failing
C2_Witness ==
    /\ pc = "retrieved"
    /\ \A i \in DOMAIN batchLog : batchLog[i].outcome = "ok"
    /\ Len(queries) > batch_size
    /\ Len(queries) % batch_size # 0
    /\ DictKeys(bm25_responses) = SeqToSet(queries)

\* C4: every score map collected by retrieve(size=n) holds at most n
\* documents, whichever batches fail.
C4_AtMostSizeHits ==
    /\ \A i \in DOMAIN es_responses : Len(es_responses[i][2]) <= size
    /\ \A i \in DOMAIN bm25_responses : Len(bm25_responses[i][2]) <= size

\* a returned query that matches more documents than size and got size hits
C4_Witness ==
    /\ pc = "retrieved"
    /\ \E i \in DOMAIN bm25_responses :
          /\ Len(bm25_responses[i][2]) = size
          /\ Cardinality({d \in indexDocs :
                 MultiMatchScore(generate_request(bm25_responses[i][1], size),
                                 d) > 0}) > size

\* C9: at most one batch request is outstanding, retrieve() waits for it,
\* every earlier batch has been handled, and the batches sent so far are the
\* consumed prefix of the input queries, in order.
C9_SequentialBatches ==
    /\ Len(inflight) <= 1
    /\ inflight # <<>> <=> pc \in {"await_batch", "await_leftover"}
    /\ \A i \in DOMAIN batchLog :
          batchLog[i].outcome = "pending" => (i = Len(batchLog) /\ inflight # <<>>)
    /\ pc \in {"loop", "await_batch", "await_leftover", "return"} =>
          FlattenQids(batchLog) \o (IF inflight = <<>> THEN qids ELSE <<>>)
              = SubSeq(queries, 1, qi)

\* a second batch is outstanding after the first was handled
C9_Witness ==
    /\ Len(batchLog) >= 2
    /\ Len(inflight) = 1
    /\ batchLog[1].outcome # "pending"
    /\ batchLog[Len(batchLog)].outcome = "pending"

\* C3: once the reranking loop has completed, results_after_reranking has
\* the query ids of bm25_responses and, for every query, exactly the document
\* ids of its first-stage candidates; a query without candidates maps to an
\* empty map.
C3_RerankKeepsCandidates ==
    pc = "reranked" =>
        /\ DictKeys(results_after_reranking) = DictKeys(bm25_responses)
        /\ \A q \in DictKeys(bm25_responses) :
              /\ DictKeys(DictGet(results_after_reranking, q))
                     = DictKeys(DictGet(bm25_responses, q))
              /\ DictGet(bm25_responses, q) = <<>>
                     => DictGet(results_after_reranking, q) = <<>>

\* reranking completed over a query without candidates and a query with
\* two candidates, one of them scored below zero by the model
C3_Witness ==
    /\ pc = "reranked"
    /\ \E q \in DictKeys(bm25_responses) : DictGet(bm25_responses, q) = <<>>
    /\ \E q \in DictKeys(bm25_responses) :
          /\ Len(DictGet(bm25_responses, q)) = 2
          /\ \E i \in 1..2 : DictGet(results_after_reranking, q)[i][2] < 0

\* C5: after create_index and index_corpus(corpus) have returned, the number
\* of documents in the index equals the number of rows of the corpus.
C5_IndexedCountIsCorpusSize ==
    pc = "indexed" => IndexCount = Len(corpus)

\* the orders of n queries
Perms(n) == {p \in [1..n -> 1..n] : \A i, j \in 1..n : i # j => p[i] # p[j]}

Permute(run, p) == [i \in DOMAIN run |-> run[p[i]]]

\* a * 2^k (exact)
FScale(a, k) == IF a = FZero THEN FZero ELSE <<a[1], a[2], a[3] + k>>

\* |a - b| <= tol, as a test on doubles would put it
FClose(a, b, tol) == FLe(a, FAdd(b, tol)) /\ FLe(b, FAdd(a, tol))

\* the report over a ranking result: nothing when no query was evaluated,
\* else the values' sum in order, divided by their number
SumOverCount(per_query) ==
    IF per_query = <<>> THEN NoReport
    ELSE FDiv(FSum(Tail(MetricScores(per_query)), Head(MetricScores(per_query))),
              FFromInt(Len(per_query)))

\* C6 as stated: the reported metric is the sum of the per-query nDCG@10
\* values divided by their number, and it is the same for every order of the
\* queries in the ranking result.
C6_MeanSameForEveryQueryOrder ==
    pc = "evaluated" =>
        /\ ndcg_bm25 = SumOverCount(eval_per_query)
        /\ \A p \in Perms(Len(bm25_responses)) :
              Report(Evaluate(qrels, Permute(bm25_responses, p))) = ndcg_bm25

\* a added up k times
RECURSIVE FTimes(_, _)
FTimes(a, k) == IF k = 0 THEN FZero ELSE FAdd(FTimes(a, k - 1), a)

\* m is the unweighted mean of the values, as a test on doubles would put
\* it: m lies between the least and the greatest value, and n times m is
\* the sum of the n values, each taken once, up to the rounding of the
\* additions and of the division (n * n * 2^-52)
IsUnweightedMean(m, values) ==
    /\ \E i \in DOMAIN values : FLe(values[i], m)
    /\ \E i \in DOMAIN values : FLe(m, values[i])
    /\ FClose(FTimes(m, Len(values)), FSum(values, FZero),
              FScale(FFromInt(Len(values) * Len(values)), -(2 * LimbBits - 2)))

\* the report over a ranking result is the mean of one value per query,
\* and the report over each of its reorderings is the same double when
\* there are one or two values and agrees with it within n * 2^-51 when
\* there are n >= 3 values
ReportsAgreeUpToRounding(run, per_query, reported) ==
    /\ Len(per_query) = Len(run)
    /\ reported = SumOverCount(per_query)
    /\ per_query # <<>> => IsUnweightedMean(reported, MetricScores(per_query))
    /\ \A p \in Perms(Len(run)) :
          LET other == Report(Evaluate(qrels, Permute(run, p)))
          IN  IF Len(per_query) <= 2 THEN other = reported
              ELSE FClose(other, reported,
                          FScale(FFromInt(Len(per_query)), -(2 * LimbBits - 3)))

\* C6, amended: each report is np.mean of the per-query nDCG@10 values, one
\* per query of the ranking result with weight 1: their float64 sum divided
\* by their number.  For one or two values the report is the same for every
\* order of the queries; for n >= 3 values a reordering changes it by
\* rounding only, by at most n * 2^-51.
C6_MeanUpToRounding ==
    /\ pc = "evaluated" =>
          ReportsAgreeUpToRounding(bm25_responses, eval_per_query, ndcg_bm25)
    /\ pc = "post_evaluated" =>
          ReportsAgreeUpToRounding(results_after_reranking,
                                   post_reranking_eval_scores_per_query,
                                   ndcg_reranked)

\* a ranking result of the two queries i and j of the run, in this order
TwoQueries(run, i, j) == <<run[i], run[j]>>

\* three queries were evaluated and some other order of them gives a
\* report that differs in its last bits, while two of them with different
\* values above 0 give the same report in both orders
C6_Witness ==
    /\ pc = "evaluated"
    /\ Len(eval_per_query) = 3
    /\ \E p \in Perms(3) :
          Report(Evaluate(qrels, Permute(bm25_responses, p))) # ndcg_bm25
    /\ \E i, j \in 1..3 :
          /\ eval_per_query[i][2] # eval_per_query[j][2]
          /\ eval_per_query[i][2] # FZero
          /\ eval_per_query[j][2] # FZero
          /\ Report(Evaluate(qrels, TwoQueries(bm25_responses, i, j)))
                 = Report(Evaluate(qrels, TwoQueries(bm25_responses, j, i)))

\* C7: every query id of a ranking result is a key of qrels, and the judge
\* rate cells' lookups qrels[qid] never miss.
C7_RankedQueriesAreJudged ==
    /\ DictKeys(es_responses) \subseteq DictKeys(qrels)
    /\ DictKeys(bm25_responses) \subseteq DictKeys(qrels)
    /\ DictKeys(results_after_reranking) \subseteq DictKeys(qrels)
    /\ raised # "KeyError: qrels[qid]"

\* both judge-rate cells ran over a result of two queries, a third query
\* having been filtered out for lack of judgments
C7_Witness ==
    /\ pc = "done"
    /\ Cardinality(DictKeys(qrels)) < MaxQueries
    /\ Len(bm25_responses) >= 2
    /\ Len(judge_rate_per_query) >= 1

\* C8: create_index on an index that exists does not raise and leaves the
\* index, its mappings and its documents as they were.
C8_CreateExistingIsNoOp ==
    [][(pc = "create_index" /\ indexExists) =>
          /\ pc' = "created"
          /\ raised' = "none"
          /\ lastStatus' = 400
          /\ <<indexExists, indexAnalyzer, indexDocs, indexPending>>'
                 = <<indexExists, indexAnalyzer, indexDocs, indexPending>>]_vars

\* create_index has answered 400 on an index holding documents under other
\* mappings than the ones it would create
C8_Witness ==
    /\ pc = "created"
    /\ lastStatus = 400
    /\ indexDocs # {}
    /\ indexAnalyzer = "standard"

\* C10: from the reranking loop on, bm25_responses is the map retrieve()
\* returned, and the BM25 judge-rate cell computes over those scores.
C10_FirstStageUnchanged ==
    /\ pc \in {"rerank", "reranked", "post_evaluated", "judged_bm25", "done"}
          => bm25_responses = es_responses
    /\ pc = "judged_bm25"
          => judge_rate_per_query = JudgeRates(es_responses, qrels)

\* the notebook ran to its end and reranking gave some document a score
\* other than its BM25 score
C10_Witness ==
    /\ pc = "done"
    /\ \E i \in DOMAIN bm25_responses :
          /\ bm25_responses[i][2] # <<>>
          /\ DictGet(results_after_reranking, bm25_responses[i][1])
                 # bm25_responses[i][2]

\* the example's inputs: judgments {"q1": {"d1": 1}} and the ranking
\* {"q1": {"d1": 0.9, "d2": 0.1}}, in either order of the dict
IsExample ==
    /\ qrels = <<<<ExampleQuery, <<<<1, 1>>>>>>>>
    /\ DictKeys(bm25_responses) = {ExampleQuery}
    /\ SeqToSet(DictGet(bm25_responses, ExampleQuery)) = {<<1, 9>>, <<2, 1>>}

\* C11: for judgments {"q1": {"d1": 1}} and ranking
\* {"q1": {"d1": 0.9, "d2": 0.1}} the evaluator's ndcg_cut_10 of q1 is 1.0
\* and the mean the cell reports is 1.0.
C11_ExampleNdcgIsOne ==
    (pc = "evaluated" /\ IsExample) =>
        /\ eval_per_query = <<<<ExampleQuery, FFromInt(1)>>>>
        /\ ndcg_bm25 = FFromInt(1)

\* the example has been evaluated
C11_Witness ==
    /\ pc = "evaluated"
    /\ IsExample
    /\ ndcg_bm25 = <<TopBit, 0, -(2 * LimbBits - 2)>>
\* the positions of retrieve()
RetrievePcs == {"loop", "await_batch", "await_leftover", "return"}

\* the map retrieve() returns for the queries qs when no batch fails: every
\* query's hits, in the order of the queries
RECURSIVE ResultWithoutFailure(_)
ResultWithoutFailure(qs) ==
    IF qs = <<>> THEN <<>>
    ELSE DictSet(ResultWithoutFailure(SubSeq(qs, 1, Len(qs) - 1)), qs[Len(qs)],
                 HitsDict(Search(generate_request(qs[Len(qs)], size), indexDocs)))

\* what C12 says of every state: retrieve() raises nothing, and when it has
\* returned every batch was attempted and answered and every query of a
\* batch that did not fail has the score map of the run in which no batch
\* fails
NoFailureSpreads ==
    /\ pc \in RetrievePcs \cup {"retrieved"} => raised = "none"
    /\ pc = "retrieved" =>
          /\ FlattenQids(batchLog) = queries
          /\ \A i \in DOMAIN batchLog :
                /\ batchLog[i].outcome # "pending"
                /\ ~Failed(batchLog[i]) =>
                      \A k \in DOMAIN batchLog[i].qids :
                          /\ DictHas(bm25_responses, batchLog[i].qids[k])
                          /\ DictGet(bm25_responses, batchLog[i].qids[k])
                                 = DictGet(ResultWithoutFailure(queries),
                                           batchLog[i].qids[k])

\* retrieve() is never stuck: the loop can go on, the call in flight can be
\* answered, or the function can return
RetrieveCanStep ==
    pc \in RetrievePcs =>
        ENABLED (ForQuery \/ Leftover \/ MsearchItemError \/ MsearchRaises
                     \/ Return)

\* the steps retrieve() has left at most: every step uses some up
StepsLeft(at, consumed) ==
    4 * (Len(queries) - consumed)
        + (CASE at = "await_batch" -> 4
             [] at = "loop" -> 3
             [] at = "await_leftover" -> 2
             [] at = "return" -> 1
             [] OTHER -> 0)

RetrieveStepUsesUp ==
    pc \in RetrievePcs => StepsLeft(pc', qi') < StepsLeft(pc, qi)

\* C12: a failing batch affects only itself.  Whichever batches fail,
\* retrieve() raises nothing and returns (it is never stuck and every step
\* brings it closer to its return); when it has returned every batch was
\* attempted, and every query of a batch that did not fail has the score
\* map it has when no batch fails.
C12_FailingBatchAffectsOnlyItself ==
    /\ [](NoFailureSpreads /\ RetrieveCanStep)
    /\ [][RetrieveStepUsesUp]_vars

\* retrieve() has returned after a batch that found documents, a batch
\* whose request raised and a batch with an error item
C12_Witness ==
    /\ pc = "retrieved"
    /\ \E i \in DOMAIN batchLog :
          /\ batchLog[i].outcome = "ok"
          /\ \E k \in DOMAIN batchLog[i].qids :
                DictGet(bm25_responses, batchLog[i].qids[k]) # <<>>
    /\ \E i \in DOMAIN batchLog : i < Len(batchLog) /\ batchLog[i].outcome = "raised"
    /\ \E i \in DOMAIN batchLog : batchLog[i].outcome = "error"
\* the request list of a batch: per query, in the order of its query ids,
\* an empty header and then the body generate_request builds for the query
WellFormedRequests(b) ==
    /\ Len(b.searches) = 2 * Len(b.qids)
    /\ \A k \in DOMAIN b.qids :
          /\ b.searches[2 * k - 1] = [hdr |-> TRUE]
          /\ b.searches[2 * k] = generate_request(b.qids[k], size)

\* C13: the batch requests sent hold between 1 and batch_size queries, all
\* but the last one sent by the leftover check hold exactly batch_size, and
\* every request list is two entries per query in the order of the batch's
\* query ids; once retrieve() has returned, the batches in the order sent
\* are the input queries in order, each query in exactly one batch, failed
\* or not.
C13_BatchesPartitionQueries ==
    /\ \A i \in DOMAIN batchLog :
          /\ Len(batchLog[i].qids) \in 1..batch_size
          /\ WellFormedRequests(batchLog[i])
          /\ (i < Len(batchLog) \/ pc \in {"loop", "await_batch"})
                 => Len(batchLog[i].qids) = batch_size
    /\ pc = "retrieved" =>
          /\ FlattenQids(batchLog) = queries
          /\ \A q \in SeqToSet(queries) :
                Cardinality({n \in DOMAIN FlattenQids(batchLog) :
                                FlattenQids(batchLog)[n] = q}) = 1

\* retrieve() has returned after a full batch that failed and a smaller
\* leftover batch
C13_Witness ==
    /\ pc = "retrieved"
    /\ Len(batchLog) >= 2
    /\ Failed(batchLog[1])
    /\ Len(batchLog[1].qids) = batch_size
    /\ Len(batchLog[Len(batchLog)].qids) < batch_size
\* C14: the values averaged by the BM25 evaluation cell are those of the
\* query ids of the ranking result, one each, and the reported mean is
\* their sum over their number; a query dropped by retrieve() has no value,
\* so when a batch failed the values are fewer than the input queries.
C14_DroppedQueriesLeftOutOfMean ==
    pc = "evaluated" =>
        /\ DictKeys(eval_per_query) = DictKeys(bm25_responses)
        /\ Len(eval_per_query) = Len(bm25_responses)
        /\ ndcg_bm25 = SumOverCount(eval_per_query)
        /\ (\E i \in DOMAIN batchLog : Failed(batchLog[i]))
               => Len(eval_per_query) < Len(queries)

\* a batch failed, and a mean above 0 was reported over fewer values than
\* there are input queries
C14_Witness ==
    /\ pc = "evaluated"
    /\ \E i \in DOMAIN batchLog : Failed(batchLog[i])
    /\ 0 < Len(eval_per_query)
    /\ Len(eval_per_query) < Len(queries)
    /\ ndcg_bm25 # FZero
====
